---- MODULE Spec2Model ----
(***************************************************************************)
(* indy-mqtt: one invocation of the command-line client.                   *)
(*                                                                         *)
(* main() (cmd/indy-mqtt.go) loads the configuration, builds one command,  *)
(* opens an MQTT session (connect), publishes the command, waits for the   *)
(* publish token, and - for commands that expect one - waits for the       *)
(* matching acknowledgment, a timeout or an interrupt, then disconnects.   *)
(*                                                                         *)
(* The model has the main goroutine (pc), the ack listener goroutine       *)
(* (lpc), the goroutines that wait for subscribe tokens, the callbacks the *)
(* MQTT library runs (OnConnect, OnConnectionLost, the subscription        *)
(* callback), and the environment: broker answers, link loss, signals and  *)
(* the passing of time.                                                    *)
(*                                                                         *)
(* The program has no "outcome" variable: an outcome is what the program   *)
(* reports.  `outcomes` is the sequence of those reports, in the order     *)
(* they are printed:                                                       *)
(*   SubscribeTimeout        indy-mqtt.go:247                              *)
(*   PublishFailed           indy-mqtt.go:87                               *)
(*   PublishedNoAckRequired  indy-mqtt.go:89, IsAckExpected = false        *)
(*   Interrupted             indy-mqtt.go:93 and :133                      *)
(*   Acknowledged(success)   indy-mqtt.go:105                              *)
(*   Acknowledged(failure)   indy-mqtt.go:117                              *)
(*   AckTimeout              indy-mqtt.go:131                              *)
(***************************************************************************)
EXTENDS Integers, Sequences, FiniteSets, Bags, TLC

(***************************************************************************)
(* Bounds of the model.                                                    *)
(***************************************************************************)
MaxAcks == 2               \* messages the broker delivers on the ack topic
MaxPendingSubscribes == 1  \* subscribe tokens pending when the link comes back
MaxPublishTime == 30       \* the clock stops here while main awaits the publish token
TickSeconds == 30          \* granularity of the clock (seconds)
MaxArgs == 2               \* arguments after the verb in the command lines of SpecCmd

(***************************************************************************)
(* Program constants.                                                      *)
(***************************************************************************)
TIMEOUT == 30             \* seconds
STATUS_CODE_OK == 200
QOS_EXACTLY_ONCE == 2
EXIT_OK == 0
EXIT_FATAL == 1           \* log.Logger.Fatalf exits with status 1
EXIT_SIGNAL == 130        \* killed by SIGINT with no handler installed
EXIT_PANIC == 2           \* Go runtime exit status of an unrecovered panic

(***************************************************************************)
(* Data.                                                                   *)
(***************************************************************************)
\* cmd.Message.Header.MessageID of the one command of this invocation
CorrelationID == "cid"

\* the id of a command of some other invocation
StaleID == "stale"

\* status codes of the acks that carry our id, and of those that do not
StatusCodes == {200, 201}

StaleStatusCodes == {200}

\* message.AckMessage (Message and Content are not interpreted by main)
AckMessages ==
    [ID : {CorrelationID}, StatusCode : StatusCodes]
        \cup [ID : {StaleID}, StatusCode : StaleStatusCodes]

NoAck == [ID |-> "none", StatusCode |-> 0]

\* payloads on the ack topic: the JSON text of an AckMessage, or a text
\* that json.Unmarshal rejects
Marshal(a) == [valid |-> TRUE, ID |-> a.ID, StatusCode |-> a.StatusCode]

Garbage == [valid |-> FALSE, ID |-> "", StatusCode |-> 0]

Payloads == {Marshal(a) : a \in AckMessages} \cup {Garbage}

\* json.Unmarshal(msg.Payload(), &ack)
Unmarshal(payload) ==
    IF payload.valid
    THEN [err |-> FALSE,
          ack |-> [ID |-> payload.ID, StatusCode |-> payload.StatusCode]]
    ELSE [err |-> TRUE, ack |-> NoAck]

Outcome(kind, success, code) ==
    [kind |-> kind, success |-> success, status_code |-> code]

(***************************************************************************)
(* Command construction (internal/command).                                *)
(***************************************************************************)
ClientID == "host-indy-mqtt"

NoHandler == "nil"

NoCmd ==
    [Host |-> "", Topic |-> <<>>, QOS |-> 0, Content |-> <<>>,
     IsAckExpected |-> FALSE, AckHandler |-> NoHandler]

CmdErr(text) == [err |-> text, cmd |-> NoCmd]

CmdOk(cmd) == [err |-> "", cmd |-> cmd]

\* strconv.Atoi on the tokens the model uses
AtoiTable == [s \in {"-5", "0", "30", "030"} |->
                 CASE s = "-5" -> -5
                   [] s = "0" -> 0
                   [] s = "30" -> 30
                   [] s = "030" -> 30]

Atoi(s) ==
    IF s \in DOMAIN AtoiTable
    THEN [err |-> FALSE, val |-> AtoiTable[s]]
    ELSE [err |-> TRUE, val |-> 0]

\* files readSuntimes can open and parse
SuntimesFiles == {"suntimes.json"}

NewControlCommand(clientID, host, args) ==
    IF Len(args) = 0
    THEN CmdErr("switch command is missing the on/off parameter")
    ELSE LET switchOnStr == args[1]
             rest == Tail(args)
         IN  IF switchOnStr # "on" /\ switchOnStr # "off"
             THEN CmdErr("switch command is expecting on or off")
             ELSE IF Len(rest) # 0
             THEN CmdErr("unexpected arguments for switch command")
             ELSE CmdOk([Host |-> host,
                         Topic |-> <<"indy-switch", host, "control">>,
                         QOS |-> QOS_EXACTLY_ONCE,
                         Content |-> <<"control", switchOnStr = "on">>,
                         IsAckExpected |-> TRUE,
                         AckHandler |-> NoHandler])

NewConfigCommand(clientID, host, args) ==
    IF Len(args) = 0
    THEN CmdErr("config command is missing setting")
    ELSE LET settingName == args[1]
             a1 == Tail(args)
             Make(rest, value) ==
                 IF Len(rest) # 0
                 THEN CmdErr("unexpected arguments for config command")
                 ELSE CmdOk([Host |-> host,
                             Topic |-> <<"indy-switch", host, "config">>,
                             QOS |-> QOS_EXACTLY_ONCE,
                             Content |-> <<"config", settingName, value>>,
                             IsAckExpected |-> TRUE,
                             AckHandler |-> NoHandler])
         IN  CASE settingName = "timezone" ->
                    IF Len(a1) = 0 THEN CmdErr("timezone missing")
                    ELSE Make(Tail(a1), <<"string", a1[1]>>)
               [] settingName = "offset" ->
                    IF Len(a1) = 0 THEN CmdErr("offset missing")
                    ELSE LET r == Atoi(a1[1])
                         IN  IF r.err \/ r.val <= 0
                             THEN CmdErr("offset needs to be a postive integer")
                             ELSE Make(Tail(a1), <<"int", r.val>>)
               [] settingName = "suntimes" ->
                    IF Len(a1) = 0 THEN CmdErr("file name missing")
                    ELSE IF a1[1] \notin SuntimesFiles
                    THEN CmdErr("unable to open")
                    ELSE Make(Tail(a1), <<"suntimes", a1[1]>>)
               [] OTHER -> CmdErr("unrecognized setting")

NewGetStatusCommand(clientID, host, args) ==
    LET one == Len(args) = 1
        rest == IF one THEN Tail(args) ELSE args
    IN  IF one /\ args[1] # "all"
        THEN CmdErr("status command is expecting all")
        ELSE IF Len(rest) # 0
        THEN CmdErr("unexpected arguments for status command")
        ELSE CmdOk([Host |-> host,
                    Topic |-> <<"indy-switch", host, "status/get">>,
                    QOS |-> QOS_EXACTLY_ONCE,
                    Content |-> <<"empty">>,
                    IsAckExpected |-> TRUE,
                    AckHandler |-> IF one THEN "GetStatusAll" ELSE "GetStatus"])

NewRestartCommand(clientID, host, args) ==
    IF Len(args) # 0
    THEN CmdErr("unexpected arguments for restart command")
    ELSE CmdOk([Host |-> host,
                Topic |-> <<"indy-switch", host, "restart">>,
                QOS |-> QOS_EXACTLY_ONCE,
                Content |-> <<"restart", FALSE>>,
                IsAckExpected |-> FALSE,
                AckHandler |-> NoHandler])

\* a reset command that waits for an acknowledgment
NewResetCommand_AckExpected(clientID, host, args) ==
    IF Len(args) # 0
    THEN CmdErr("unexpected arguments for reset command")
    ELSE CmdOk([Host |-> host,
                Topic |-> <<"indy-switch", host, "restart">>,
                QOS |-> QOS_EXACTLY_ONCE,
                Content |-> <<"restart", TRUE>>,
                IsAckExpected |-> TRUE,
                AckHandler |-> NoHandler])

NewResetCommand(clientID, host, args) ==
    IF Len(args) # 0
    THEN CmdErr("unexpected arguments for reset command")
    ELSE CmdOk([Host |-> host,
                Topic |-> <<"indy-switch", host, "restart">>,
                QOS |-> QOS_EXACTLY_ONCE,
                Content |-> <<"restart", TRUE>>,
                IsAckExpected |-> FALSE,
                AckHandler |-> NoHandler])

NewCommand(clientID, args) ==
    IF Len(args) = 0 THEN CmdErr("no host specified")
    ELSE LET host == args[1]
             a1 == Tail(args)
         IN  IF Len(a1) = 0 THEN CmdErr("no command specified")
             ELSE LET cmdStr == a1[1]
                      a2 == Tail(a1)
                  IN  CASE cmdStr = "switch" -> NewControlCommand(clientID, host, a2)
                        [] cmdStr = "config" -> NewConfigCommand(clientID, host, a2)
                        [] cmdStr = "status" -> NewGetStatusCommand(clientID, host, a2)
                        [] cmdStr = "restart" -> NewRestartCommand(clientID, host, a2)
                        [] cmdStr = "reset" -> NewResetCommand(clientID, host, a2)
                        [] OTHER -> CmdErr("unrecognized command")

\* Command.HandleAck: may the handler return an error?  A nil AckHandler
\* returns nil; GetStatusAckHandler fails on content it cannot parse.
HandlerMayFail(cmd) == cmd.AckHandler # NoHandler

\* command lines of the invocations the model runs
ArgLists ==
    { <<"esp", "status", "all">>,
      <<"esp", "restart">>,
      <<>>,
      <<"esp">>,
      <<"esp", "switch", "up">>,
      <<"esp", "reboot">> }

\* words of a command line
Verbs == {"switch", "config", "status", "restart", "reset", "reboot"}

Words == {"on", "off", "all", "timezone", "offset", "suntimes", "UTC", "30",
          "0", "suntimes.json", "nofile"}

\* every command line of one host, a verb and up to MaxArgs words, and the
\* two that are too short to have a verb
CommandLines ==
    {<<>>, <<"esp">>}
        \cup UNION {{<<"esp", v>> \o w : w \in [1..n -> Words]} :
                       <<v, n>> \in Verbs \X (0..MaxArgs)}

(***************************************************************************)
(* State.                                                                  *)
(***************************************************************************)
VARIABLES
    pc,               \* position of the main goroutine
    exitCode,         \* process exit status, -1 while running
    argv,             \* the command line: flag.Args() of parseCommandLine
    cmd,              \* the Command built by NewCommand
    publishSuccess,   \* local of main, indy-mqtt.go:83
    disconnected,     \* client.Disconnect has been called
    crashed,          \* the process died of a panic
    connTok,          \* token of client.Connect: "none", "pending", "ok", "err"
    linkUp,           \* the network connection to the broker is up
    connectionLost,   \* the global of indy-mqtt.go:27
    readyReconnect,   \* the library has reconnected after connect() returned
    subPending,       \* goroutines of line 215 waiting for a subscribe token
    subscribed,       \* the channel `subscribed` is closed
    pubTok,           \* token of client.Publish: "none", "pending", "ok", "err"
    clock,            \* time in seconds
    deadline,         \* when the time.After of the current select fires
    ackWaitStart,     \* clock value when the select of line 127 was entered
    sigInstalled,     \* signal.Notify has been called
    interrupt,        \* the channel `interrupt` (capacity 1) holds a signal
    senders,          \* subscription callbacks blocked in `ackCh <- ack`
    delivered,        \* messages the broker delivered on the ack topic
    lateMatch,        \* an ack with our id arrived after the ack wait was decided
    earlyMatch,       \* an ack with our id arrived during the publish wait, and
                      \* the listener has not returned since
    lpc,              \* position of the ack listener goroutine
    ack,              \* loop variable of the listener: the ack in hand
    consumed,         \* number of acks the listener received
    handlerCalls,     \* calls of cmd.HandleAck
    handled,          \* the ack whose content went to cmd.HandleAck
    acked,            \* the channel `acked` is closed
    outcomes,         \* outcome reports, in order
    errors            \* secondary error reports

mainVars == <<pc, exitCode, argv, cmd, publishSuccess, disconnected,
              crashed>>
sessVars == <<connTok, linkUp, connectionLost, readyReconnect, subPending,
              subscribed>>
timeVars == <<clock, deadline, ackWaitStart>>
sigVars  == <<sigInstalled, interrupt>>
ackVars  == <<senders, delivered, lateMatch, earlyMatch, lpc, ack, consumed,
              handlerCalls, handled, acked>>
logVars  == <<outcomes, errors>>

vars == <<mainVars, sessVars, pubTok, timeVars, sigVars, ackVars, logVars>>

NoDeadline == -1

Running == pc # "Exited"

\* the state of a process that has not built its command yet
Fresh ==
    /\ exitCode = -1
    /\ cmd = NoCmd
    /\ publishSuccess = FALSE
    /\ disconnected = FALSE
    /\ crashed = FALSE
    /\ connTok = "none"
    /\ linkUp = FALSE
    /\ connectionLost = FALSE
    /\ readyReconnect = FALSE
    /\ subPending = 0
    /\ subscribed = FALSE
    /\ pubTok = "none"
    /\ clock = 0
    /\ deadline = NoDeadline
    /\ ackWaitStart = NoDeadline
    /\ sigInstalled = FALSE
    /\ interrupt = FALSE
    /\ senders = EmptyBag
    /\ lpc = "NotStarted"
    /\ ack = NoAck
    /\ delivered = 0
    /\ lateMatch = FALSE
    /\ earlyMatch = FALSE
    /\ consumed = 0
    /\ handlerCalls = 0
    /\ handled = NoAck
    /\ acked = FALSE
    /\ outcomes = <<>>
    /\ errors = {}

Init ==
    /\ pc = "LoadConfig"
    /\ argv \in ArgLists
    /\ Fresh

(***************************************************************************)
(* The main goroutine before the session is opened.                        *)
(***************************************************************************)
\* a Fatalf that exits with status 0
Fatal_ExitZero(what) ==
    /\ pc' = "Exited"
    /\ exitCode' = EXIT_OK
    /\ errors' = errors \cup {what}

\* util.ERROR.Fatalf: print, then os.Exit(1)
Fatal(what) ==
    /\ pc' = "Exited"
    /\ exitCode' = EXIT_FATAL
    /\ errors' = errors \cup {what}

\* config.LoadConfig(): a missing or malformed file is fatal
LoadConfig ==
    /\ pc = "LoadConfig"
    /\ \E ok \in BOOLEAN :
         IF ok
         THEN /\ pc' = "Hostname"
              /\ UNCHANGED <<exitCode, errors>>
         ELSE Fatal("config")
    /\ UNCHANGED <<argv, cmd, publishSuccess, disconnected, crashed, sessVars, pubTok,
                   timeVars, sigVars, ackVars, outcomes>>

\* os.Hostname()
Hostname ==
    /\ pc = "Hostname"
    /\ \E ok \in BOOLEAN :
         IF ok
         THEN /\ pc' = "NewCommand"
              /\ UNCHANGED <<exitCode, errors>>
         ELSE Fatal("hostname")
    /\ UNCHANGED <<argv, cmd, publishSuccess, disconnected, crashed, sessVars, pubTok,
                   timeVars, sigVars, ackVars, outcomes>>

\* a main that prints the usage error and carries on with the zero Command
CreateCommand_IgnoreError ==
    /\ pc = "NewCommand"
    /\ LET r == NewCommand(ClientID, argv)
       IN  /\ pc' = "Connect"
           /\ cmd' = r.cmd
           /\ errors' = IF r.err # "" THEN errors \cup {"usage"} ELSE errors
    /\ UNCHANGED <<exitCode, argv, publishSuccess, disconnected, crashed,
                   sessVars, pubTok, timeVars, sigVars, ackVars, outcomes>>

\* command.NewCommand(clientID, args); an error goes to util.PrintFatalUsage,
\* which prints the usage and calls os.Exit(0)
CreateCommand ==
    /\ pc = "NewCommand"
    /\ LET r == NewCommand(ClientID, argv)
       IN  IF r.err # ""
           THEN /\ pc' = "Exited"
                /\ exitCode' = EXIT_OK
                /\ errors' = errors \cup {"usage"}
                /\ cmd' = cmd
           ELSE /\ pc' = "Connect"
                /\ cmd' = r.cmd
                /\ UNCHANGED <<exitCode, errors>>
    /\ UNCHANGED <<argv, publishSuccess, disconnected, crashed, sessVars, pubTok,
                   timeVars, sigVars, ackVars, outcomes>>

(***************************************************************************)
(* connect(): opening the session.                                         *)
(***************************************************************************)
\* client.Connect() is called; token.Wait() blocks
Connect ==
    /\ pc = "Connect"
    /\ pc' = "ConnectWait"
    /\ connTok' = "pending"
    /\ UNCHANGED <<exitCode, argv, cmd, publishSuccess, disconnected, crashed, linkUp,
                   connectionLost, readyReconnect, subPending,
                   subscribed, pubTok, timeVars, sigVars, ackVars, logVars>>

\* an OnConnect that subscribes whatever the command
OnConnect_AlwaysSubscribe ==
    /\ connectionLost' = FALSE
    /\ subPending' = subPending + 1

\* options.OnConnect: the library runs it after every successful connect,
\* the first one and each automatic reconnect.  With isAckExpected it calls
\* client.Subscribe and starts a goroutine that waits for the subscribe token.
OnConnect ==
    /\ connectionLost' = FALSE
    /\ subPending' = IF cmd.IsAckExpected THEN subPending + 1 ELSE subPending

\* the broker answers the connect handshake and the library runs OnConnect,
\* or the handshake fails (ConnectRetry = false: no second attempt)
BrokerConnect ==
    /\ Running
    /\ connTok = "pending"
    /\ \E ok \in BOOLEAN :
         IF ok
         THEN /\ connTok' = "ok"
              /\ linkUp' = TRUE
              /\ OnConnect
         ELSE /\ connTok' = "err"
              /\ UNCHANGED <<linkUp, connectionLost, subPending>>
    /\ UNCHANGED <<mainVars, readyReconnect, subscribed, pubTok,
                   timeVars, sigVars, ackVars, logVars>>

\* token.Wait() returns.  On error connect returns it and main calls Fatalf.
\* Otherwise, with isAckExpected, the select of line 243 is entered and its
\* time.After(TIMEOUT) is armed.
ConnectReturn ==
    /\ pc = "ConnectWait"
    /\ connTok \in {"ok", "err"}
    /\ IF connTok = "err"
       THEN /\ Fatal("connect")
            /\ UNCHANGED deadline
       ELSE /\ IF cmd.IsAckExpected
               THEN /\ pc' = "WaitSubscribed"
                    /\ deadline' = clock + TIMEOUT
               ELSE /\ pc' = "Publish"
                    /\ UNCHANGED deadline
            /\ UNCHANGED <<exitCode, errors>>
    /\ UNCHANGED <<argv, cmd, publishSuccess, disconnected, crashed, sessVars, pubTok,
                   clock, ackWaitStart, sigVars, ackVars, outcomes>>

\* case <-subscribed: connect returns the client
SubscribedSeen ==
    /\ pc = "WaitSubscribed"
    /\ subscribed
    /\ pc' = "Publish"
    /\ deadline' = NoDeadline
    /\ UNCHANGED <<exitCode, argv, cmd, publishSuccess, disconnected, crashed, sessVars,
                   pubTok, clock, ackWaitStart, sigVars, ackVars, logVars>>

\* case <-time.After(TIMEOUT): the error is printed and connect returns
\* (client, nil) all the same
SubscribeTimedOut ==
    /\ pc = "WaitSubscribed"
    /\ clock >= deadline
    /\ outcomes' = Append(outcomes, Outcome("SubscribeTimeout", FALSE, 0))
    /\ pc' = "Publish"
    /\ deadline' = NoDeadline
    /\ UNCHANGED <<exitCode, argv, cmd, publishSuccess, disconnected, crashed, sessVars,
                   pubTok, clock, ackWaitStart, sigVars, ackVars, errors>>

(***************************************************************************)
(* Callbacks the MQTT library runs, and the goroutines they start.         *)
(***************************************************************************)
\* close(subscribed): closing a closed channel panics, and an unrecovered
\* panic in any goroutine ends the process
CloseSubscribed ==
    IF subscribed
    THEN /\ crashed' = TRUE
         /\ pc' = "Exited"
         /\ exitCode' = EXIT_PANIC
         /\ UNCHANGED subscribed
    ELSE /\ subscribed' = TRUE
         /\ UNCHANGED <<crashed, pc, exitCode>>

\* the goroutine of line 215: <-token.Done(), then the error is printed or
\* `subscribed` is closed
SubscribeDone ==
    /\ Running
    /\ subPending > 0
    /\ subPending' = subPending - 1
    /\ \E ok \in BOOLEAN :
         IF ok
         THEN /\ CloseSubscribed
              /\ UNCHANGED errors
         ELSE /\ errors' = errors \cup {"subscribe"}
              /\ UNCHANGED <<subscribed, crashed, pc, exitCode>>
    /\ UNCHANGED <<argv, cmd, publishSuccess, disconnected, connTok, linkUp,
                   connectionLost, readyReconnect, pubTok, timeVars,
                   sigVars, ackVars, outcomes>>

\* the link goes down; options.OnConnectionLost sets the global
ConnectionLost ==
    /\ Running
    /\ linkUp
    /\ linkUp' = FALSE
    /\ connectionLost' = TRUE
    /\ UNCHANGED <<mainVars, connTok, readyReconnect, subPending, subscribed,
                   pubTok, timeVars, sigVars, ackVars, logVars>>

\* connect() has returned the client to main and main has not yet called
\* client.Disconnect
SessionReady ==
    pc \in {"Publish", "Notify", "WaitPublish", "WatchAck", "WaitAck",
            "Disconnect"}

\* AutoReconnect = true: the library reconnects (options.OnReconnecting only
\* prints) and runs OnConnect again
Reconnect ==
    /\ Running
    /\ connTok = "ok"
    /\ ~linkUp
    /\ ~disconnected
    /\ subPending < MaxPendingSubscribes
    /\ linkUp' = TRUE
    /\ readyReconnect' = (readyReconnect \/ SessionReady)
    /\ OnConnect
    /\ UNCHANGED <<mainVars, connTok, subscribed, pubTok, timeVars,
                   sigVars, ackVars, logVars>>

(***************************************************************************)
(* main(): publish, wait for the publish token, watch for the ack.         *)
(***************************************************************************)
\* json.Marshal(cmd.Message), then client.Publish(cmd.Topic, cmd.QOS, ...)
Publish ==
    /\ pc = "Publish"
    /\ pubTok' = "pending"
    /\ pc' = "Notify"
    /\ UNCHANGED <<exitCode, argv, cmd, publishSuccess, disconnected, crashed, sessVars,
                   timeVars, sigVars, ackVars, logVars>>

\* interrupt := make(chan os.Signal, 1); signal.Notify(interrupt, ...)
NotifySignals ==
    /\ pc = "Notify"
    /\ sigInstalled' = TRUE
    /\ pc' = "WaitPublish"
    /\ UNCHANGED <<exitCode, argv, cmd, publishSuccess, disconnected, crashed, sessVars,
                   pubTok, timeVars, interrupt, ackVars, logVars>>

\* case <-token.Done() of the select of line 84
PublishDone ==
    /\ pc = "WaitPublish"
    /\ pubTok \in {"ok", "err"}
    /\ IF pubTok = "err"
       THEN /\ outcomes' = Append(outcomes, Outcome("PublishFailed", FALSE, 0))
            /\ UNCHANGED publishSuccess
       ELSE /\ publishSuccess' = TRUE
            /\ outcomes' = IF cmd.IsAckExpected
                           THEN outcomes
                           ELSE Append(outcomes,
                                       Outcome("PublishedNoAckRequired", TRUE, 0))
    /\ pc' = "WatchAck"
    /\ UNCHANGED <<exitCode, argv, cmd, disconnected, crashed, sessVars, pubTok,
                   timeVars, sigVars, ackVars, errors>>

\* case <-interrupt of the select of line 84
PublishInterrupted ==
    /\ pc = "WaitPublish"
    /\ interrupt
    /\ interrupt' = FALSE
    /\ outcomes' = Append(outcomes, Outcome("Interrupted", FALSE, 0))
    /\ pc' = "WatchAck"
    /\ UNCHANGED <<exitCode, argv, cmd, publishSuccess, disconnected, crashed, sessVars,
                   pubTok, timeVars, sigInstalled, ackVars, errors>>

\* line 97 without the publishSuccess test
AckWatchNeeded_NoSuccess == cmd.IsAckExpected

\* line 97 without the IsAckExpected test
AckWatchNeeded_NoFlag == publishSuccess

\* the condition of line 97
AckWatchNeeded == cmd.IsAckExpected /\ publishSuccess

\* a timer that counts from the start of the invocation, not from the
\* moment the select is entered
AckDeadline_Absolute == TIMEOUT

\* time.After(TIMEOUT) of line 130, evaluated when the select is entered
AckDeadline == clock + TIMEOUT

\* lines 97-127: start the listener goroutine and enter the select, or skip
\* to the disconnect
WatchAck ==
    /\ pc = "WatchAck"
    /\ IF AckWatchNeeded
       THEN /\ lpc' = "Recv"
            /\ pc' = "WaitAck"
            /\ deadline' = AckDeadline
            /\ ackWaitStart' = clock
       ELSE /\ pc' = "Disconnect"
            /\ UNCHANGED <<lpc, deadline, ackWaitStart>>
    /\ UNCHANGED <<exitCode, argv, cmd, publishSuccess, disconnected, crashed, sessVars,
                   pubTok, clock, sigVars, senders, delivered, lateMatch, earlyMatch, ack,
                   consumed, handlerCalls, handled, acked, logVars>>

\* case <-acked of the select of line 127
AckedSeen ==
    /\ pc = "WaitAck"
    /\ acked
    /\ pc' = "Disconnect"
    /\ UNCHANGED <<exitCode, argv, cmd, publishSuccess, disconnected, crashed, sessVars,
                   pubTok, timeVars, sigVars, ackVars, logVars>>

\* a main that publishes again after the ack timeout
AckTimedOut_Retry ==
    /\ pc = "WaitAck"
    /\ clock >= deadline
    /\ outcomes' = Append(outcomes, Outcome("AckTimeout", FALSE, 0))
    /\ pc' = "Publish"
    /\ UNCHANGED <<exitCode, argv, cmd, publishSuccess, disconnected, crashed,
                   sessVars, pubTok, timeVars, sigVars, ackVars, errors>>

\* case <-time.After(TIMEOUT) of the select of line 127
AckTimedOut ==
    /\ pc = "WaitAck"
    /\ clock >= deadline
    /\ outcomes' = Append(outcomes, Outcome("AckTimeout", FALSE, 0))
    /\ pc' = "Disconnect"
    /\ UNCHANGED <<exitCode, argv, cmd, publishSuccess, disconnected, crashed, sessVars,
                   pubTok, timeVars, sigVars, ackVars, errors>>

\* case <-interrupt of the select of line 127
AckInterrupted ==
    /\ pc = "WaitAck"
    /\ interrupt
    /\ interrupt' = FALSE
    /\ outcomes' = Append(outcomes, Outcome("Interrupted", FALSE, 0))
    /\ pc' = "Disconnect"
    /\ UNCHANGED <<exitCode, argv, cmd, publishSuccess, disconnected, crashed, sessVars,
                   pubTok, timeVars, sigInstalled, ackVars, errors>>

\* client.Disconnect(DISCONNECT_WAIT)
Disconnect ==
    /\ pc = "Disconnect"
    /\ disconnected' = TRUE
    /\ linkUp' = FALSE
    /\ pc' = "Return"
    /\ UNCHANGED <<exitCode, argv, cmd, publishSuccess, crashed, connTok, connectionLost,
                   readyReconnect, subPending, subscribed, pubTok,
                   timeVars, sigVars, ackVars, logVars>>

\* main returns: the process exits with status 0 and every goroutine ends
Return ==
    /\ pc = "Return"
    /\ pc' = "Exited"
    /\ exitCode' = EXIT_OK
    /\ UNCHANGED <<argv, cmd, publishSuccess, disconnected, crashed, sessVars, pubTok,
                   timeVars, sigVars, ackVars, logVars>>

(***************************************************************************)
(* The ack listener goroutine, lines 99-123.                               *)
(***************************************************************************)
\* a listener that takes any ack for its own
IsExpectedAck_Any(a) == TRUE

\* ack.ID == cmd.Message.Header.MessageID
IsExpectedAck(a) == a.ID = CorrelationID

\* a range test: every 2xx status counts as success
IsStatusOK_Range(a) == a.StatusCode >= 200 /\ a.StatusCode < 300

\* ack.StatusCode == STATUS_CODE_OK
IsStatusOK(a) == a.StatusCode = STATUS_CODE_OK

\* cmd.HandleAck called for every matching ack, whatever its status code
AfterRecv_HandleAlways(a) ==
    IF IsExpectedAck(a)
    THEN [lpc |-> "Handle", ack |-> a,
          report |-> <<Outcome("Acknowledged", IsStatusOK(a), a.StatusCode)>>]
    ELSE [lpc |-> "Recv", ack |-> NoAck, report |-> <<>>]

\* where the listener goes after receiving `ack`, and what it reports
AfterRecv(a) ==
    IF IsExpectedAck(a)
    THEN IF IsStatusOK(a)
         THEN [lpc |-> "Handle", ack |-> a,
               report |-> <<Outcome("Acknowledged", TRUE, a.StatusCode)>>]
         ELSE [lpc |-> "Close", ack |-> a,
               report |-> <<Outcome("Acknowledged", FALSE, a.StatusCode)>>]
    ELSE [lpc |-> "Recv", ack |-> NoAck, report |-> <<>>]

\* a listener that restarts the timer of the ack wait when it discards an ack
ListenerRecv_Rearm ==
    /\ Running
    /\ lpc = "Recv"
    /\ \E a \in BagToSet(senders) :
         /\ senders' = senders (-) SetToBag({a})
         /\ consumed' = consumed + 1
         /\ ack' = AfterRecv(a).ack
         /\ lpc' = AfterRecv(a).lpc
         /\ outcomes' = outcomes \o AfterRecv(a).report
         /\ deadline' = IF IsExpectedAck(a) THEN deadline ELSE clock + TIMEOUT
    /\ UNCHANGED <<mainVars, sessVars, pubTok, clock, ackWaitStart, sigVars,
                   delivered, lateMatch, earlyMatch, handlerCalls, handled, acked, errors>>

\* one iteration of `for ack := range ackCh`: a blocked callback hands over
\* its ack; the id and the status code are tested and the result is printed
ListenerRecv ==
    /\ Running
    /\ lpc = "Recv"
    /\ \E a \in BagToSet(senders) :
         /\ senders' = senders (-) SetToBag({a})
         /\ consumed' = consumed + 1
         /\ ack' = AfterRecv(a).ack
         /\ lpc' = AfterRecv(a).lpc
         /\ outcomes' = outcomes \o AfterRecv(a).report
    /\ UNCHANGED <<mainVars, sessVars, pubTok, timeVars, sigVars, delivered,
                   lateMatch, earlyMatch, handlerCalls, handled, acked, errors>>

\* a listener that returns on a handler error without closing `acked`
ListenerHandle_ReturnOnError ==
    /\ Running
    /\ lpc = "Handle"
    /\ handlerCalls' = handlerCalls + 1
    /\ handled' = ack
    /\ \E failed \in BOOLEAN :
         /\ failed => HandlerMayFail(cmd)
         /\ errors' = IF failed THEN errors \cup {"handler"} ELSE errors
         /\ lpc' = IF failed THEN "Returned" ELSE "Close"
    /\ UNCHANGED <<mainVars, sessVars, pubTok, timeVars, sigVars, senders,
                   delivered, lateMatch, earlyMatch, ack, consumed, acked, outcomes>>

\* cmd.HandleAck(ack.Content); its error is printed
ListenerHandle ==
    /\ Running
    /\ lpc = "Handle"
    /\ handlerCalls' = handlerCalls + 1
    /\ handled' = ack
    /\ \E failed \in BOOLEAN :
         /\ failed => HandlerMayFail(cmd)
         /\ errors' = IF failed THEN errors \cup {"handler"} ELSE errors
    /\ lpc' = "Close"
    /\ UNCHANGED <<mainVars, sessVars, pubTok, timeVars, sigVars, senders,
                   delivered, lateMatch, earlyMatch, ack, consumed, acked, outcomes>>

\* close(acked); return
ListenerClose ==
    /\ Running
    /\ lpc = "Close"
    /\ acked' = TRUE
    /\ lpc' = "Returned"
    /\ earlyMatch' = FALSE
    /\ UNCHANGED <<mainVars, sessVars, pubTok, timeVars, sigVars, senders,
                   delivered, lateMatch, ack, consumed, handlerCalls, handled,
                   logVars>>

(***************************************************************************)
(* The environment: broker, signals, time.                                 *)
(***************************************************************************)
\* the publish token completes: the broker confirmed the publish (the link
\* must be up for that), or the library reports an error
PublishResult ==
    /\ Running
    /\ pubTok = "pending"
    /\ \E ok \in BOOLEAN :
         /\ ok => linkUp
         /\ pubTok' = IF ok THEN "ok" ELSE "err"
    /\ UNCHANGED <<mainVars, sessVars, timeVars, sigVars, ackVars, logVars>>

\* the ack wait has been decided by the timer or by the interrupt
AckWaitAbandoned ==
    \/ \E i \in DOMAIN outcomes : outcomes[i].kind = "AckTimeout"
    \/ /\ publishSuccess
       /\ \E i \in DOMAIN outcomes : outcomes[i].kind = "Interrupted"

\* the subscription is confirmed, the command is published and main has
\* not yet started the listener
InPublishWait == subscribed /\ pubTok # "none" /\ lpc = "NotStarted"

\* a callback that does not block: it drops the ack when no listener is
\* receiving
AckArrives_DropIfNoListener ==
    /\ Running
    /\ linkUp
    /\ subscribed \/ subPending > 0
    /\ delivered < MaxAcks
    /\ delivered' = delivered + 1
    /\ \E payload \in Payloads :
         LET r == Unmarshal(payload)
         IN  IF r.err
             THEN /\ errors' = errors \cup {"parse"}
                  /\ UNCHANGED <<senders, lateMatch, earlyMatch>>
             ELSE /\ senders' = IF lpc = "Recv"
                                THEN senders (+) SetToBag({r.ack})
                                ELSE senders
                  /\ lateMatch' = (lateMatch \/ (AckWaitAbandoned
                                                  /\ r.ack.ID = CorrelationID))
                  /\ earlyMatch' = (earlyMatch \/ (InPublishWait
                                                    /\ r.ack.ID = CorrelationID))
                  /\ UNCHANGED errors
    /\ UNCHANGED <<mainVars, sessVars, pubTok, timeVars, sigVars, lpc, ack,
                   consumed, handlerCalls, handled, acked, outcomes>>

\* a callback that forwards the ack also when json.Unmarshal failed
AckArrives_ForwardUnparsed ==
    /\ Running
    /\ linkUp
    /\ subscribed \/ subPending > 0
    /\ delivered < MaxAcks
    /\ delivered' = delivered + 1
    /\ \E payload \in Payloads :
         LET r == Unmarshal(payload)
         IN  /\ errors' = IF r.err THEN errors \cup {"parse"} ELSE errors
             /\ senders' = senders (+) SetToBag({r.ack})
             /\ lateMatch' = (lateMatch \/ (AckWaitAbandoned
                                             /\ r.ack.ID = CorrelationID))
             /\ earlyMatch' = (earlyMatch \/ (InPublishWait
                                               /\ r.ack.ID = CorrelationID))
    /\ UNCHANGED <<mainVars, sessVars, pubTok, timeVars, sigVars, lpc, ack,
                   consumed, handlerCalls, handled, acked, outcomes>>

\* the subscription callback of line 196: a message arrives on the ack
\* topic; an unparsable payload is reported and dropped, any other ack is
\* sent on ackCh (unbuffered: the callback blocks until it is received)
AckArrives ==
    /\ Running
    /\ linkUp
    /\ subscribed \/ subPending > 0
    /\ delivered < MaxAcks
    /\ delivered' = delivered + 1
    /\ \E payload \in Payloads :
         LET r == Unmarshal(payload)
         IN  IF r.err
             THEN /\ errors' = errors \cup {"parse"}
                  /\ UNCHANGED <<senders, lateMatch, earlyMatch>>
             ELSE /\ senders' = senders (+) SetToBag({r.ack})
                  /\ lateMatch' = (lateMatch \/ (AckWaitAbandoned
                                                  /\ r.ack.ID = CorrelationID))
                  /\ earlyMatch' = (earlyMatch \/ (InPublishWait
                                                    /\ r.ack.ID = CorrelationID))
                  /\ UNCHANGED errors
    /\ UNCHANGED <<mainVars, sessVars, pubTok, timeVars, sigVars, lpc, ack,
                   consumed, handlerCalls, handled, acked, outcomes>>

\* SIGINT or SIGTERM: before signal.Notify the default action ends the
\* process at once; afterwards the signal goes to the channel of capacity 1
\* (a signal that finds it full is dropped)
Signal ==
    /\ Running
    /\ IF sigInstalled
       THEN /\ interrupt' = TRUE
            /\ UNCHANGED <<pc, exitCode>>
       ELSE /\ pc' = "Exited"
            /\ exitCode' = EXIT_SIGNAL
            /\ UNCHANGED interrupt
    /\ UNCHANGED <<argv, cmd, publishSuccess, disconnected, crashed, sessVars, pubTok,
                   timeVars, sigInstalled, ackVars, logVars>>

\* time passes while main is blocked in one of its selects.  The clock is
\* not advanced past an armed timer that is ready to fire.
Tick ==
    /\ \/ pc \in {"WaitSubscribed", "WaitAck"} /\ clock < deadline
       \/ pc = "WaitPublish" /\ clock < MaxPublishTime
    /\ clock' = clock + TickSeconds
    /\ UNCHANGED <<mainVars, sessVars, pubTok, deadline, ackWaitStart, sigVars,
                   ackVars, logVars>>

Next ==
    \/ LoadConfig
    \/ Hostname
    \/ CreateCommand
    \/ Connect
    \/ BrokerConnect
    \/ ConnectReturn
    \/ SubscribedSeen
    \/ SubscribeTimedOut
    \/ SubscribeDone
    \/ ConnectionLost
    \/ Reconnect
    \/ Publish
    \/ NotifySignals
    \/ PublishDone
    \/ PublishInterrupted
    \/ WatchAck
    \/ AckedSeen
    \/ AckTimedOut
    \/ AckInterrupted
    \/ Disconnect
    \/ Return
    \/ ListenerRecv
    \/ ListenerHandle
    \/ ListenerClose
    \/ PublishResult
    \/ AckArrives
    \/ Signal
    \/ Tick

Spec == Init /\ [][Next]_vars

(***************************************************************************)
(* Progress.  The Go scheduler runs every runnable goroutine, time passes, *)
(* and the library ends the connect handshake within ConnectTimeout.       *)
(* Nothing makes the broker confirm a publish or a subscribe, the device   *)
(* answer, or the operator send a signal.                                  *)
(***************************************************************************)
\* a step of the main goroutine
MainStep ==
    \/ LoadConfig
    \/ Hostname
    \/ CreateCommand
    \/ Connect
    \/ ConnectReturn
    \/ SubscribedSeen
    \/ SubscribeTimedOut
    \/ Publish
    \/ NotifySignals
    \/ PublishDone
    \/ PublishInterrupted
    \/ WatchAck
    \/ AckedSeen
    \/ AckTimedOut
    \/ AckInterrupted
    \/ Disconnect
    \/ Return

\* a step of the ack listener goroutine
ListenerStep ==
    \/ ListenerRecv
    \/ ListenerHandle
    \/ ListenerClose

Fairness ==
    /\ WF_vars(MainStep)
    /\ WF_vars(ListenerStep)
    /\ WF_vars(BrokerConnect)
    /\ WF_vars(Tick)

SpecLive == Init /\ [][Next]_vars /\ Fairness

(***************************************************************************)
(* Command construction alone: main at line 52, on any command line.       *)
(***************************************************************************)
InitCmd ==
    /\ pc = "NewCommand"
    /\ argv \in CommandLines
    /\ Fresh

NextCmd == CreateCommand

SpecCmd == InitCmd /\ [][NextCmd]_vars

(***************************************************************************)
(* Properties.                                                             *)
(***************************************************************************)
Reported(o) == \E i \in DOMAIN outcomes : outcomes[i] = o

ReportedKind(k) == \E i \in DOMAIN outcomes : outcomes[i].kind = k

AckSuccess == Outcome("Acknowledged", TRUE, 200)

\* the listener receives ack `a` in this step
Receives(a) ==
    /\ lpc = "Recv"
    /\ BagIn(a, senders)
    /\ senders' = senders (-) SetToBag({a})
    /\ consumed' = consumed + 1

\* C1: with ack_expected, the command is never published while the
\* subscription to the ack topic is unconfirmed (the channel `subscribed`
\* is closed before client.Publish is called).
C1_PublishOnlyAfterSubscribed ==
    (cmd.IsAckExpected /\ pubTok # "none") => subscribed

\* C2: when the wait for the subscription confirmation times out, the
\* invocation ends with SubscribeTimeout: that is its only outcome, the
\* command is never published, and the process does not exit without
\* having disconnected.
C2_SubscribeTimeoutIsFatal ==
    ReportedKind("SubscribeTimeout") =>
        /\ pubTok = "none"
        /\ Len(outcomes) = 1
        /\ pc \notin {"Publish", "Notify", "WaitPublish", "WatchAck", "WaitAck"}

\* C3: an ack whose id differs from the correlation id is discarded: the
\* listener keeps listening, main stays where it is, and the step reports
\* no outcome and no error, calls no handler and does not close `acked`.
C3_MismatchedAckDiscarded ==
    [][\A a \in AckMessages :
          (Receives(a) /\ a.ID # CorrelationID) =>
              /\ lpc' = "Recv"
              /\ pc' = pc
              /\ outcomes' = outcomes
              /\ errors' = errors
              /\ handlerCalls' = handlerCalls
              /\ acked' = acked]_vars

C3_Witness ==
    /\ pc = "WaitAck"
    /\ lpc = "Recv"
    /\ consumed = 2
    /\ outcomes = <<>>
    /\ errors = {}

\* C4: a matching ack is reported as Acknowledged(success) exactly when its
\* status code is 200, and as Acknowledged(failure, status_code) for every
\* other status code.
C4_ExactStatusBoundary ==
    [][\A a \in AckMessages :
          (Receives(a) /\ a.ID = CorrelationID) =>
              outcomes' = Append(outcomes,
                                 Outcome("Acknowledged", a.StatusCode = 200,
                                         a.StatusCode))]_vars

C4_Witness ==
    /\ Reported(Outcome("Acknowledged", FALSE, 201))
    /\ handlerCalls = 0
    /\ acked

\* C5: the ack timeout is measured from the moment main enters the ack
\* wait, which happens only after the publish was confirmed: AckTimeout is
\* reported only from the ack wait and only when TIMEOUT seconds have passed
\* since the wait began; main leaves the ack wait for the disconnect only
\* on a closed `acked`, on an interrupt or on that timeout; after the
\* timeout the next step of main is the disconnect, and main does not
\* return before it has disconnected.  No timer is armed while main waits
\* for the publish token.
C5_TimedOutNow == outcomes' = Append(outcomes, Outcome("AckTimeout", FALSE, 0))

C5_AckTimeoutFromWaitStart ==
    /\ [](/\ pc \in {"Publish", "Notify", "WaitPublish", "WatchAck"}
              => deadline = NoDeadline
          /\ ackWaitStart # NoDeadline => publishSuccess
          /\ (pc = "Exited" /\ exitCode = EXIT_OK /\ ReportedKind("AckTimeout"))
              => disconnected)
    /\ [][/\ C5_TimedOutNow =>
               /\ pc = "WaitAck"
               /\ pc' = "Disconnect"
               /\ ackWaitStart # NoDeadline
               /\ clock >= ackWaitStart + TIMEOUT
          /\ (pc = "WaitAck" /\ pc' = "Disconnect" /\ ~acked /\ ~interrupt)
               => C5_TimedOutNow]_vars

C5_Witness ==
    /\ pc = "Exited"
    /\ disconnected
    /\ outcomes = <<Outcome("AckTimeout", FALSE, 0)>>
    /\ ackWaitStart = TickSeconds
    /\ clock = ackWaitStart + TIMEOUT

\* C6: with ack_expected = false the outcome is PublishedNoAckRequired as
\* soon as the publish is confirmed; main never enters the ack wait, the
\* listener is never started, no ack is consumed and the handler is never
\* called.
C6_NoAckRequired ==
    ~cmd.IsAckExpected =>
        /\ pc # "WaitAck"
        /\ lpc = "NotStarted"
        /\ consumed = 0
        /\ handlerCalls = 0
        /\ publishSuccess =>
             /\ outcomes = <<Outcome("PublishedNoAckRequired", TRUE, 0)>>
             /\ pc \in {"WatchAck", "Disconnect", "Return", "Exited"}

C6_Witness ==
    /\ pc = "Exited"
    /\ cmd # NoCmd
    /\ ~cmd.IsAckExpected
    /\ publishSuccess
    /\ disconnected

\* C7: the ack wait produces one outcome: of Acknowledged, AckTimeout and
\* Interrupted at most one is ever reported.
C7_OneOutcome ==
    Cardinality({i \in DOMAIN outcomes :
                    outcomes[i].kind \in {"Acknowledged", "AckTimeout",
                                          "Interrupted"}}) <= 1

\* C8: cmd.HandleAck is called at most once, only with an ack that carries
\* the correlation id and status code 200, and only after that ack was
\* reported as Acknowledged(success).
C8_HandlerOnceOnSuccess ==
    /\ handlerCalls <= 1
    /\ lpc = "Handle" => (ack = [ID |-> CorrelationID, StatusCode |-> 200]
                          /\ Reported(AckSuccess))
    /\ handlerCalls = 1 =>
         /\ handled = [ID |-> CorrelationID, StatusCode |-> 200]
         /\ Reported(AckSuccess)
    /\ handlerCalls = 0 => handled = NoAck

C8_Witness ==
    /\ handlerCalls = 1
    /\ lpc = "Returned"
    /\ consumed = 1
    /\ delivered = 2
    /\ CopiesIn([ID |-> CorrelationID, StatusCode |-> 200], senders) = 1

\* C9: an error of the ack handler is a secondary report: the ack stays
\* reported as Acknowledged(success) and nothing else is reported in its
\* place, the listener goes on to close `acked` exactly as after a handler
\* that succeeded, a closed `acked` lets main leave the ack wait, and main
\* does not return without having disconnected.
C9_HandlerErrorIsSecondary ==
    "handler" \in errors =>
        /\ Reported(AckSuccess)
        /\ ~ \E i \in DOMAIN outcomes :
               outcomes[i].kind = "Acknowledged" /\ ~outcomes[i].success
        /\ lpc \in {"Close", "Returned"}
        /\ lpc = "Returned" => acked
        /\ (pc = "WaitAck" /\ acked) => ENABLED AckedSeen
        /\ (pc = "Exited" /\ exitCode = EXIT_OK) => disconnected

C9_Witness ==
    /\ "handler" \in errors
    /\ pc = "Exited"
    /\ disconnected
    /\ outcomes = <<AckSuccess>>

\* C10: a link loss followed by an automatic reconnect after the session is
\* Ready never crashes the process.
C10_ReconnectIsHarmless == readyReconnect => ~crashed

\* a signal reaches the process in this step: it ends the process, or it is
\* put into the channel `interrupt`
SignalArrives ==
    \/ exitCode # EXIT_SIGNAL /\ exitCode' = EXIT_SIGNAL
    \/ ~interrupt /\ interrupt'

\* C11: an interrupt signal that arrives while main waits for the
\* subscription confirmation, for the publish confirmation or for the ack
\* does not end the process on the spot: it is handed to main (the channel
\* `interrupt`), and an invocation that reported Interrupted and has exited
\* has disconnected first.
C11_InterruptCancels ==
    /\ [][(pc \in {"WaitSubscribed", "WaitPublish", "WaitAck"} /\ SignalArrives)
             => (pc' = pc /\ interrupt')]_vars
    /\ []((pc = "Exited" /\ ReportedKind("Interrupted")) => disconnected)

\* C12: a process that has connected to the broker never exits without
\* having called client.Disconnect.
C12_DisconnectOnEveryExit ==
    (pc = "Exited" /\ connTok = "ok") => disconnected

C14_InterruptLikePublishError ==
    /\ []((pubTok # "none" /\ ~publishSuccess) =>
            /\ pc # "WaitAck"
            /\ lpc = "NotStarted"
            /\ consumed = 0
            /\ handlerCalls = 0
            /\ ackWaitStart = NoDeadline
            /\ ~ReportedKind("Acknowledged")
            /\ ~ReportedKind("AckTimeout"))
    /\ [][(pc = "WaitPublish" /\ pc' = "WatchAck") =>
             \/ /\ pubTok = "ok"
                /\ publishSuccess'
             \/ /\ ~publishSuccess'
                /\ \/ outcomes' = Append(outcomes, Outcome("Interrupted", FALSE, 0))
                   \/ outcomes' = Append(outcomes,
                                         Outcome("PublishFailed", FALSE, 0))]_vars
    /\ [][(pc = "WatchAck" /\ ~publishSuccess /\ pc' # pc /\ ~crashed')
             => pc' = "Disconnect"]_vars

C14_Witness ==
    /\ pc = "Exited"
    /\ disconnected
    /\ cmd.IsAckExpected
    /\ outcomes = <<Outcome("Interrupted", FALSE, 0)>>
    /\ ~publishSuccess
    /\ BagIn([ID |-> CorrelationID, StatusCode |-> 200], senders)

\* C15: the command is published at most once (the publish token is created
\* once and never reset), and after PublishFailed or AckTimeout main only
\* goes on to the disconnect: it never returns to the publish or to the ack
\* wait.
C15_NoRetry ==
    /\ [][/\ pubTok # "none" => pubTok' # "none"
          /\ (pubTok' = "pending" /\ pubTok # "pending") => pubTok = "none"
          /\ pubTok \in {"ok", "err"} => pubTok' = pubTok
          /\ pc' = "Publish" => pubTok = "none"
          /\ (pc' = "WaitAck" /\ pc # "WaitAck") => ackWaitStart = NoDeadline]_vars
    /\ [](ReportedKind("PublishFailed") =>
              /\ pc \in {"WatchAck", "Disconnect", "Return", "Exited"}
              /\ lpc = "NotStarted")
    /\ [](ReportedKind("AckTimeout") =>
              pc \in {"Disconnect", "Return", "Exited"})

C15_Witness ==
    /\ pc = "Exited"
    /\ disconnected
    /\ pubTok = "err"
    /\ outcomes = <<Outcome("PublishFailed", FALSE, 0)>>

\* C16: when the connect fails, or when a subscribe to the ack topic is
\* answered with an error and no subscribe was confirmed, the command is
\* never published.
C16_HandshakeFailureIsFatal ==
    ("connect" \in errors \/ ("subscribe" \in errors /\ ~subscribed))
        => pubTok = "none"

\* C17: after a configuration error or a usage error the process has exited
\* without any network activity: no connect, no subscribe, no publish; and
\* no outcome is reported.
C17_EarlyErrorsBeforeNetwork ==
    ("config" \in errors \/ "usage" \in errors) =>
        /\ pc = "Exited"
        /\ connTok = "none"
        /\ ~linkUp
        /\ subPending = 0
        /\ ~subscribed
        /\ pubTok = "none"
        /\ outcomes = <<>>

C17_Witness ==
    /\ pc = "Exited"
    /\ "usage" \in errors
    /\ argv = <<"esp", "switch", "up">>
    /\ connTok = "none"

\* C19: an ack with our id that arrives after the ack wait was decided by
\* the timer or by the interrupt is never taken by the abandoned listener:
\* it is still with its callback, so it is neither reported nor handled.
C19_AbandonedListenerIsInert ==
    lateMatch => \E a \in BagToSet(senders) : a.ID = CorrelationID

\* C20: once the listener has found its match and returned, no callback is
\* blocked in a send on ackCh.
C20_NoBlockedProducer ==
    lpc = "Returned" => senders = EmptyBag

\* C18: every command that NewCommand builds has QoS 2, and expects an ack
\* exactly when its verb is switch, config or status; restart and reset
\* commands do not.  NewCommand builds a command for no other verb, and
\* the built command is not changed afterwards.
C18_AckExpectedByVerb ==
    /\ [](cmd # NoCmd =>
            /\ pc # "NewCommand"
            /\ cmd.QOS = 2
            /\ argv[2] \in {"switch", "config", "status", "restart", "reset"}
            /\ cmd.IsAckExpected <=> argv[2] \in {"switch", "config", "status"}
            /\ cmd.Host = argv[1])
    /\ [][cmd # NoCmd => cmd' = cmd]_vars

C18_Witness ==
    /\ pc = "Connect"
    /\ argv = <<"esp", "config", "offset", "30">>
    /\ cmd.IsAckExpected
    /\ cmd.QOS = 2
    /\ cmd.Content = <<"config", "offset", <<"int", 30>>>>

\* C22: for a command that expects no ack, no subscribe is ever issued (on
\* the first connect or on a reconnect), the channel `subscribed` is never
\* closed, connect() never waits for it, and no message of the ack topic
\* reaches the process.
C22_NoSubscriptionWithoutAck ==
    ~cmd.IsAckExpected =>
        /\ subPending = 0
        /\ ~subscribed
        /\ pc # "WaitSubscribed"
        /\ "subscribe" \notin errors
        /\ ~ReportedKind("SubscribeTimeout")
        /\ delivered = 0
        /\ senders = EmptyBag

C22_Witness ==
    /\ pc = "Exited"
    /\ argv = <<"esp", "restart">>
    /\ readyReconnect
    /\ disconnected
    /\ outcomes = <<Outcome("PublishedNoAckRequired", TRUE, 0)>>
    /\ subPending = 0

\* C24: only parsed acks are ever sent on ackCh or held by the listener; a
\* message of the ack topic that is not forwarded is reported as a parse
\* error and changes nothing else: main and the listener stay where they
\* are, nothing is consumed, no outcome is reported, no handler is called.
C24_UnparsableAckDropped ==
    /\ [](/\ BagToSet(senders) \subseteq AckMessages
          /\ ack \in AckMessages \cup {NoAck}
          /\ handled \in AckMessages \cup {NoAck})
    /\ [][(delivered' # delivered /\ senders' = senders) =>
             /\ "parse" \in errors'
             /\ UNCHANGED <<pc, lpc, ack, consumed, handlerCalls, handled,
                            acked, outcomes, deadline>>]_vars

C24_Witness ==
    /\ pc = "WaitAck"
    /\ lpc = "Recv"
    /\ errors = {"parse"}
    /\ delivered = 1
    /\ consumed = 0
    /\ senders = EmptyBag
    /\ outcomes = <<>>

\* C25: the timer of the ack wait is armed once, when the wait begins:
\* while main is in the ack wait the deadline stays at ackWaitStart +
\* TIMEOUT whatever the listener discards, and once that time is reached
\* the timeout branch can be taken and no more time passes in the wait.
C25_DiscardsDoNotRearm ==
    /\ [](pc = "WaitAck" =>
            /\ deadline = ackWaitStart + TIMEOUT
            /\ clock >= deadline => (ENABLED AckTimedOut /\ ~ENABLED Tick))
    /\ [][(pc = "WaitAck" /\ pc' = "WaitAck") =>
             (deadline' = deadline /\ ackWaitStart' = ackWaitStart)]_vars

C25_Witness ==
    /\ pc = "Exited"
    /\ disconnected
    /\ outcomes = <<Outcome("AckTimeout", FALSE, 0)>>
    /\ consumed = 2
    /\ lpc = "Recv"
    /\ clock = ackWaitStart + TIMEOUT

HasMatch(b) == \E a \in BagToSet(b) : a.ID = CorrelationID

\* C23: an ack with our id that arrives after the subscription was
\* confirmed and before the listener is started is not lost: it stays with
\* its blocked callback until the listener takes it; an ack leaves ackCh
\* only by a receive of the listener, which reports it if it has our id;
\* once the publish is confirmed and the listener runs (the process being
\* alive) it can take that ack, and it leaves its loop only with an acknowledgment reported.  The
\* invocation reports AckTimeout without Acknowledged only if the
\* listener took no step for the whole of TIMEOUT.
C23_EarlyAckNotLost ==
    /\ [](earlyMatch =>
            /\ lpc \in {"NotStarted", "Recv"} => HasMatch(senders)
            /\ (lpc = "Recv" /\ Running) => ENABLED ListenerRecv
            /\ lpc \in {"Handle", "Close"} => ReportedKind("Acknowledged")
            /\ lpc # "Returned"
            /\ (ReportedKind("AckTimeout") /\ ~ReportedKind("Acknowledged"))
                 => (lpc = "Recv" /\ clock >= ackWaitStart + TIMEOUT))
    /\ [][\A a \in AckMessages :
             CopiesIn(a, senders') < CopiesIn(a, senders) =>
                 /\ Receives(a)
                 /\ a.ID = CorrelationID =>
                      outcomes' = Append(outcomes,
                                         Outcome("Acknowledged",
                                                 a.StatusCode = 200,
                                                 a.StatusCode))]_vars

C23_Witness ==
    /\ earlyMatch
    /\ pc = "WaitAck"
    /\ lpc = "Close"
    /\ delivered = 1
    /\ consumed = 1
    /\ handlerCalls = 1
    /\ outcomes = <<AckSuccess>>

\* C21: every invocation eventually terminates: no wait of main blocks for
\* ever.
C21_EveryInvocationTerminates == <>(pc = "Exited")

====
